---------------------------- MODULE Spec2Model ----------------------------
(***************************************************************************)
(* A model of the benchmark executor binary of sui-distributed-execution   *)
(* (src/bin/benchmark_executor.rs): the executor shard lifecycle           *)
(* (ExecutorShard::start, await_completion), the three CLI operations of   *)
(* main (run, testbed, genesis), the testbed                               *)
(* orchestrator deploy_testbed, the benchmark data generator and the       *)
(* export/import pipeline exercised by test::export_test.                  *)
(*                                                                         *)
(* One orchestrating thread (main, or the test body) walks the code; pc is *)
(* its position.  Every tokio task a start call spawns (the agent task and *)
(* the metrics-endpoint task) is an independent process whose steps        *)
(* interleave freely with the orchestrator's.  GlobalConfig values live on *)
(* a heap of registries addressed by references, so that clone, move and   *)
(* drop are what the code makes them.                                      *)
(***************************************************************************)
EXTENDS Integers, Sequences, FiniteSets, TLC

VARIABLES
    pc,              \* position of the orchestrating thread
    op,              \* the entry point taken: "Run", "Testbed", "Genesis", "ExportTest"
    args,            \* the parsed command line (Args + Operation fields)
    overflow_checks, \* build profile: TRUE = arithmetic overflow panics, FALSE = it wraps
    heap,            \* reference -> GlobalConfig value (the live registries)
    global_configs,  \* the orchestrator's registry variable: a reference, or NoRef once moved
    id,              \* the loop variable `id` of deploy_testbed
    calls,           \* one record per ExecutorShard::start call, in call order
    returned,        \* the value deploy_testbed returned to its caller (a reference), or NoRef
    await_result,    \* result of await_completion: "none", "ok" (Ok(metrics)), "err" (JoinError)
    exit,            \* "running", "ok" (exit status 0) or "panic" (non-zero exit status)
    fs,              \* the file system: directories and files
    data,            \* what generate_benchmark_data returned, or NoData
    imported         \* what import_from_files returned, or NoData

vars == <<pc, op, args, overflow_checks, heap, global_configs, id, calls,
          returned, await_result, exit, fs, data, imported>>

---------------------------------------------------------------------------
(* Bounds of the model. *)

\* Largest --execution-workers value tried, apart from usize::MAX.
MaxWorkers == 2

\* Width of usize and u64, scaled down so that wrapped values stay inside
\* TLC's integers; only the wrap-around at the modulus matters.
UsizeModulus == 2 ^ 16
U64Modulus == 2 ^ 16
USIZE_MAX == UsizeModulus - 1

NoRef == 0
NoData == [none |-> TRUE]

---------------------------------------------------------------------------
(* Strings are sequences of characters, so that to_string is a conversion. *)

Digits == <<"0", "1", "2", "3", "4", "5", "6", "7", "8", "9">>

RECURSIVE to_string(_)
to_string(n) ==
    IF n < 10 THEN <<Digits[n + 1]>>
    ELSE to_string(n \div 10) \o <<Digits[(n % 10) + 1]>>

DigitValue(c) == CHOOSE d \in 0..9 : Digits[d + 1] = c

\* str::parse::<u64> on a decimal string: the reader's side of the attribute bag.
RECURSIVE parse_u64(_)
parse_u64(s) ==
    IF Len(s) = 1 THEN DigitValue(s[1])
    ELSE 10 * parse_u64(SubSeq(s, 1, Len(s) - 1)) + DigitValue(s[Len(s)])

---------------------------------------------------------------------------
(* GlobalConfig: UniqueId -> [kind, attrs]; attrs: key -> string. *)

EmptyAttrs == [k \in {} |-> <<>>]

\* HashMap::insert on an attribute bag, for each (key, value) of `inserts`.
attrs_insert(attrs, inserts) ==
    [k \in DOMAIN attrs \cup DOMAIN inserts |->
        IF k \in DOMAIN inserts THEN inserts[k] ELSE attrs[k]]

\* GlobalConfig::new_for_benchmark(ips, sequence_workers): one entry per ip,
\* ids 0..len-1, the first sequence_workers of them sequencing ("SW"), the
\* rest executing ("EW").
new_for_benchmark(n_ips, sequence_workers) ==
    [i \in 0..(n_ips - 1) |->
        [kind |-> IF i < sequence_workers THEN "SW" ELSE "EW",
         attrs |-> EmptyAttrs]]

\* entry(id).or_insert_with(..) followed by the inserts: an entry is created
\* for an id that has none.
entry_or_insert(reg, i, inserts) ==
    [j \in DOMAIN reg \cup {i} |->
        IF j = i
        THEN [kind |-> IF i \in DOMAIN reg THEN reg[i].kind ELSE "EW",
              attrs |-> attrs_insert(IF i \in DOMAIN reg THEN reg[i].attrs
                                                         ELSE EmptyAttrs, inserts)]
        ELSE reg[j]]

\* global_configs.0.entry(id).and_modify(|e| e.attrs.insert(..)): the
\* inserts are made in the entry when it exists, nothing happens otherwise
\* (the Entry is dropped without or_insert).
entry_and_modify(reg, i, inserts) ==
    IF i \in DOMAIN reg
    THEN [reg EXCEPT ![i].attrs = attrs_insert(@, inserts)]
    ELSE reg

\* A fresh heap reference.
NewRef == (CHOOSE r \in 1..(Cardinality(DOMAIN heap) + 1) : r \notin DOMAIN heap)

heap_alloc(h, r, v) == [x \in DOMAIN h \cup {r} |-> IF x = r THEN v ELSE h[x]]
heap_free(h, r) == [x \in DOMAIN h \ {r} |-> h[x]]

\* x + 1 on usize: the wrapped value (release profile).
usize_add1(x) == (x + 1) % UsizeModulus
\* Whether x + 1 overflows usize (a panic under overflow checks).
usize_add1_overflows(x) == x + 1 >= UsizeModulus


---------------------------------------------------------------------------
(* The inputs tried. *)

Kinds == {"SW", "EW", "XX"}
PresetAttrs == [k \in {"tx_count"} |-> <<"9">>]

\* What GlobalConfig::from_path can load: any registry over a few ids, with
\* known and unknown role tags, with and without attributes already set.
LoadableConfigs ==
    UNION {[D -> [kind : Kinds, attrs : {EmptyAttrs, PresetAttrs}]] : D \in SUBSET {0, 1}}

\* (--tx-count, --duration) pairs: small ones, and one whose product
\* overflows u64.
Workloads == {<<0, 2>>, <<3, 2>>, <<12, 0>>, <<U64Modulus \div 2, 2>>}

TxCounts == {w[1] : w \in Workloads}

\* --working-directory: the path, and whether it is valid UTF-8.
WorkingDirs == {[path |-> <<"w", "d">>, utf8 |-> TRUE],
                [path |-> <<"w", "?">>, utf8 |-> FALSE]}

WorkerCounts == 0..MaxWorkers \cup {USIZE_MAX}

DefaultArgs ==
    [tx_count |-> 0, duration |-> 0, working_directory |-> <<"w", "d">>,
     wd_utf8 |-> TRUE, id |-> 0, config |-> << >>, execution_workers |-> 0,
     n_ips |-> 0, sequence_workers |-> 0]

---------------------------------------------------------------------------
(* Tasks and process exit. *)

\* The runtime shutting down: every task still running is cancelled.
cancel_tasks(cs) ==
    [k \in DOMAIN cs |->
        [cs[k] EXCEPT !.agent = IF @ = "running" THEN "cancelled" ELSE @,
                      !.metrics_task = IF @ = "running" THEN "cancelled" ELSE @]]

\* A panic on the orchestrating thread: the process ends with a non-zero status.
Panic(cs) ==
    /\ exit' = "panic"
    /\ pc' = "dead"
    /\ calls' = cancel_tasks(cs)

\* server.run(metrics) returns: the agent task finishes normally.
AgentFinish(k) ==
    /\ exit = "running"
    /\ calls[k].agent = "running"
    /\ calls' = [calls EXCEPT ![k].agent = "finished"]
    /\ UNCHANGED <<pc, op, args, overflow_checks, heap, global_configs, id,
                   returned, await_result, exit, fs, data, imported>>

\* server.run(metrics) panics: the agent task faults.
AgentPanic(k) ==
    /\ exit = "running"
    /\ calls[k].agent = "running"
    /\ calls' = [calls EXCEPT ![k].agent = "panicked"]
    /\ UNCHANGED <<pc, op, args, overflow_checks, heap, global_configs, id,
                   returned, await_result, exit, fs, data, imported>>

\* The metrics endpoint task ends with Err(hyper::Error).
MetricsFail(k) ==
    /\ exit = "running"
    /\ calls[k].metrics_task = "running"
    /\ calls' = [calls EXCEPT ![k].metrics_task = "failed"]
    /\ UNCHANGED <<pc, op, args, overflow_checks, heap, global_configs, id,
                   returned, await_result, exit, fs, data, imported>>

---------------------------------------------------------------------------
(* ExecutorShard::start(global_configs, id), one step per statement group. *)

\* A call that has its metrics endpoint running before it looks up the id.
begin_start_eager(cs, ref, i, ret) ==
    Append(cs, [id |-> i, configs |-> ref, phase |-> "lookup", up |-> 0,
                metrics_task |-> "running", agent |-> "none", handles |-> "none",
                ret |-> ret])

\* The call begins: the registry `ref` is moved into the call.
begin_start(cs, ref, i, ret) ==
    Append(cs, [id |-> i, configs |-> ref, phase |-> "lookup", up |-> 0,
                metrics_task |-> "none", agent |-> "none", handles |-> "none",
                ret |-> ret])

Cur == Len(calls)

\* A lookup that never reports a missing id.
lookup_never_none(reg, i) == FALSE

\* global_configs.get(&id): None for an id that is no key.
lookup_is_none(reg, i) == i \notin DOMAIN reg

\* line 28: let configs = global_configs.get(&id).expect("Unknown agent id")
StartLookup ==
    /\ pc = "start" /\ calls[Cur].phase = "lookup"
    /\ IF lookup_is_none(heap[calls[Cur].configs], calls[Cur].id)
       THEN /\ Panic([calls EXCEPT ![Cur].phase = "abort_id"])
       ELSE /\ calls' = [calls EXCEPT ![Cur].phase = "prometheus"]
            /\ UNCHANGED <<pc, exit>>
    /\ UNCHANGED <<op, args, overflow_checks, heap, global_configs, id,
                   returned, await_result, fs, data, imported>>

\* lines 30-35: a registry of its own, Metrics::new, start_prometheus_server
\* (which spawns the metrics endpoint task and hands back its JoinHandle).
StartPrometheus ==
    /\ pc = "start" /\ calls[Cur].phase = "prometheus"
    /\ calls' = [calls EXCEPT ![Cur].phase = "spawn",
                              ![Cur].metrics_task = "running"]
    /\ UNCHANGED <<pc, op, args, overflow_checks, heap, global_configs, id,
                   returned, await_result, exit, fs, data, imported>>

\* A dispatch with a catch-all arm that spawns a server for any role tag.
kind_always_known(kind) == TRUE

\* The role dispatch of lines 40-48: the roles for which a server is spawned.
kind_is_known(kind) == kind = "SW" \/ kind = "EW"

\* lines 37-48: Server::new + tokio::spawn for "SW" and "EW", panic otherwise.
StartSpawn ==
    /\ pc = "start" /\ calls[Cur].phase = "spawn"
    /\ IF kind_is_known(heap[calls[Cur].configs][calls[Cur].id].kind)
       THEN /\ calls' = [calls EXCEPT ![Cur].phase = "inc",
                                      ![Cur].agent = "running"]
            /\ UNCHANGED <<pc, exit>>
       ELSE /\ Panic([calls EXCEPT ![Cur].phase = "abort_kind"])
    /\ UNCHANGED <<op, args, overflow_checks, heap, global_configs, id,
                   returned, await_result, fs, data, imported>>

\* A counter that is never incremented.
up_not_inc(n) == n

\* The effect of metrics.up.inc() on the counter.
up_inc(n) == n + 1

\* An increment on one counter that all shards of the process share.
shared_metrics_inc(cs, k) == [j \in DOMAIN cs |-> [cs[j] EXCEPT !.up = up_inc(@)]]

\* lines 31-32 and 51: `metrics` of call k is built on the Registry::new()
\* of that call, so the increment reaches the counter of shard k alone.
metrics_inc(cs, k) == [cs EXCEPT ![k].up = up_inc(@)]

\* line 51: metrics.up.inc()
StartInc ==
    /\ pc = "start" /\ calls[Cur].phase = "inc"
    /\ calls' = [metrics_inc(calls, Cur) EXCEPT ![Cur].phase = "ret"]
    /\ UNCHANGED <<pc, op, args, overflow_checks, heap, global_configs, id,
                   returned, await_result, exit, fs, data, imported>>

\* lines 53-57: Self { metrics, main_handle, _metrics_handle } goes to the caller.
StartReturn ==
    /\ pc = "start" /\ calls[Cur].phase = "ret"
    /\ calls' = [calls EXCEPT ![Cur].phase = "returned",
                              ![Cur].handles = "held"]
    /\ pc' = calls[Cur].ret
    /\ UNCHANGED <<op, args, overflow_checks, heap, global_configs, id,
                   returned, await_result, exit, fs, data, imported>>


---------------------------------------------------------------------------
(* main: Args::parse() and the dispatch on args.operation (lines 131-136). *)

ParseRun ==
    /\ pc = "entry"
    /\ \E w \in Workloads, d \in WorkingDirs, i \in 0..1, c \in LoadableConfigs :
          args' = [DefaultArgs EXCEPT !.tx_count = w[1], !.duration = w[2],
                                      !.working_directory = d.path,
                                      !.wd_utf8 = d.utf8, !.id = i, !.config = c]
    /\ op' = "Run"
    /\ pc' = "run_load"
    /\ UNCHANGED <<overflow_checks, heap, global_configs, id, calls, returned,
                   await_result, exit, fs, data, imported>>

ParseTestbed ==
    /\ pc = "entry"
    /\ \E t \in TxCounts, n \in WorkerCounts :
          args' = [DefaultArgs EXCEPT !.tx_count = t, !.execution_workers = n]
    /\ op' = "Testbed"
    /\ pc' = "tb_build"
    /\ UNCHANGED <<overflow_checks, heap, global_configs, id, calls, returned,
                   await_result, exit, fs, data, imported>>

---------------------------------------------------------------------------
(* Operation::Run (lines 137-155). *)

\* line 139: GlobalConfig::from_path(config_path)
RunLoad ==
    /\ pc = "run_load"
    /\ global_configs' = NewRef
    /\ heap' = heap_alloc(heap, NewRef, args.config)
    /\ pc' = "run_inject"
    /\ UNCHANGED <<op, args, overflow_checks, id, calls, returned,
                   await_result, exit, fs, data, imported>>

\* What the closure of lines 140-148 inserts.
run_attrs ==
    [tx_count |-> to_string(args.tx_count),
     duration |-> to_string(args.duration),
     working_dir |-> args.working_directory]

\* lines 140-148: entry(id).and_modify(..); into_string().unwrap() panics on
\* a working directory that is not UTF-8 (only when the closure runs).
RunInject ==
    /\ pc = "run_inject"
    /\ IF args.id \in DOMAIN heap[global_configs] /\ ~args.wd_utf8
       THEN /\ Panic(calls)
            /\ UNCHANGED heap
       ELSE /\ heap' = [heap EXCEPT ![global_configs] =
                            entry_and_modify(@, args.id, run_attrs)]
            /\ pc' = "run_start"
            /\ UNCHANGED <<calls, exit>>
    /\ UNCHANGED <<op, args, overflow_checks, global_configs, id, returned,
                   await_result, fs, data, imported>>

\* line 151: ExecutorShard::start(global_config, id); the registry is moved.
RunStart ==
    /\ pc = "run_start"
    /\ calls' = begin_start(calls, global_configs, args.id, "run_await")
    /\ global_configs' = NoRef
    /\ pc' = "start"
    /\ UNCHANGED <<op, args, overflow_checks, heap, id, returned,
                   await_result, exit, fs, data, imported>>

\* A JoinHandle is ready once its task has ended, however it ended.
join_ready(task) == task \in {"finished", "panicked", "cancelled"}

\* An await that swallows the JoinError.
join_output_always_ok(task) == "ok"

\* What awaiting a JoinHandle yields: the output, or a JoinError for a task
\* that panicked or was cancelled.
join_output(task) == IF task = "finished" THEN "ok" ELSE "err"

\* lines 61-64 (called at 152-153): self.main_handle.await?; Ok(self.metrics).
\* self is consumed: _metrics_handle is dropped, never awaited.
AwaitCompletion ==
    /\ pc = "run_await"
    /\ join_ready(calls[Cur].agent)
    /\ await_result' = join_output(calls[Cur].agent)
    /\ calls' = [calls EXCEPT ![Cur].handles = "dropped"]
    /\ pc' = "run_expect"
    /\ UNCHANGED <<op, args, overflow_checks, heap, global_configs, id,
                   returned, exit, fs, data, imported>>

\* An expect that never panics.
expect_never_panics(result) == FALSE

\* Result::expect: panics on Err.
expect_panics(result) == result = "err"

\* line 154: .expect("Failed to run executor")
RunExpect ==
    /\ pc = "run_expect"
    /\ IF expect_panics(await_result)
       THEN Panic(calls)
       ELSE /\ pc' = "main_end"
            /\ UNCHANGED <<calls, exit>>
    /\ UNCHANGED <<op, args, overflow_checks, heap, global_configs, id,
                   returned, await_result, fs, data, imported>>

\* main returns: the runtime is dropped and the process exits with status 0.
MainExit ==
    /\ pc = "main_end"
    /\ exit' = "ok"
    /\ pc' = "dead"
    /\ calls' = cancel_tasks(calls)
    /\ UNCHANGED <<op, args, overflow_checks, heap, global_configs, id,
                   returned, await_result, fs, data, imported>>


---------------------------------------------------------------------------
(* Operation::Testbed (lines 156-158) and deploy_testbed (lines 217-241). *)

\* lines 218-220: ips = vec![LOCALHOST; execution_workers + 1];
\* GlobalConfig::new_for_benchmark(ips, 1).
DeployBuild ==
    /\ pc = "tb_build"
    /\ IF overflow_checks /\ usize_add1_overflows(args.execution_workers)
       THEN /\ Panic(calls)
            /\ UNCHANGED <<heap, global_configs, id>>
       ELSE /\ global_configs' = NewRef
            /\ heap' = heap_alloc(heap, NewRef,
                         new_for_benchmark(usize_add1(args.execution_workers), 1))
            /\ id' = 0
            /\ pc' = "tb_inject"
            /\ UNCHANGED <<calls, exit>>
    /\ UNCHANGED <<op, args, overflow_checks, returned, await_result, fs,
                   data, imported>>

\* The rate written under another key.
testbed_attrs_wrong_key == [rate |-> to_string(args.tx_count)]

\* What the closure of lines 224-226 inserts.
testbed_attrs == [tx_count |-> to_string(args.tx_count)]

\* An injection loop that stops one shard short.
inject_end_short(n) == n

\* The end of the range 0..execution_workers + 1 of line 223.
inject_end(n) == usize_add1(n)

\* lines 223-227, one iteration of `for id in 0..execution_workers + 1`.
DeployInject ==
    /\ pc = "tb_inject"
    /\ IF id < inject_end(args.execution_workers)
       THEN /\ heap' = [heap EXCEPT ![global_configs] =
                            entry_and_modify(@, id, testbed_attrs)]
            /\ id' = id + 1
            /\ pc' = pc
       ELSE /\ pc' = "tb_spawn_sw"
            /\ UNCHANGED <<heap, id>>
    /\ UNCHANGED <<op, args, overflow_checks, global_configs, calls, returned,
                   await_result, exit, fs, data, imported>>

\* No copy: the shard is handed the orchestrator's own registry.
alias_target(ref) == ref

\* global_configs.clone(): where the copy lives.
clone_target(ref) == NewRef

\* The sequence worker started under the first execution worker's id.
sequence_worker_id_off == 0 + 1

\* line 231: let id = 0
sequence_worker_id == 0

\* lines 229-232: clone the registry and start the sequence worker.
DeploySpawnSequencer ==
    /\ pc = "tb_spawn_sw"
    /\ LET r == clone_target(global_configs) IN
          /\ heap' = heap_alloc(heap, r, heap[global_configs])
          /\ calls' = begin_start(calls, r, sequence_worker_id, "tb_workers")
    /\ id' = 1
    /\ pc' = "start"
    /\ UNCHANGED <<op, args, overflow_checks, global_configs, returned,
                   await_result, exit, fs, data, imported>>

\* A worker loop that stops one id early.
spawn_end_short(n) == n

\* line 235: the exclusive upper end of `1..execution_workers + 1`.
spawn_end(n) == usize_add1(n)

\* lines 235-237, the head of one iteration of `for id in 1..execution_workers + 1`.
DeployWorkerLoop ==
    /\ pc = "tb_workers"
    /\ IF id < spawn_end(args.execution_workers)
       THEN /\ LET r == clone_target(global_configs) IN
                  /\ heap' = heap_alloc(heap, r, heap[global_configs])
                  /\ calls' = begin_start(calls, r, id, "tb_worker_end")
            /\ pc' = "start"
       ELSE /\ pc' = "tb_return"
            /\ UNCHANGED <<heap, calls>>
    /\ UNCHANGED <<op, args, overflow_checks, global_configs, id, returned,
                   await_result, exit, fs, data, imported>>

\* A drop that joins the agent task first.
drop_awaits(agent) == join_ready(agent)

\* Dropping an ExecutorShard drops its JoinHandles, which detaches the tasks:
\* it never waits for them.
drop_is_ready(agent) == TRUE

\* A drop of JoinHandles that aborts the tasks they refer to.
drop_aborts(shard) ==
    [shard EXCEPT !.handles = "dropped",
                  !.agent = IF @ = "running" THEN "cancelled" ELSE @,
                  !.metrics_task = IF @ = "running" THEN "cancelled" ELSE @]

\* lines 238 and 241: an ExecutorShard goes out of scope.  Its two
\* JoinHandles are dropped, which leaves the tasks as they are.
drop_shard(shard) == [shard EXCEPT !.handles = "dropped"]

\* line 238: `_worker` goes out of scope at the end of the iteration.
DeployWorkerEnd ==
    /\ pc = "tb_worker_end"
    /\ drop_is_ready(calls[Cur].agent)
    /\ calls' = [calls EXCEPT ![Cur] = drop_shard(@)]
    /\ id' = id + 1
    /\ pc' = "tb_workers"
    /\ UNCHANGED <<op, args, overflow_checks, heap, global_configs, returned,
                   await_result, exit, fs, data, imported>>

\* lines 240-241: the registry is moved to the caller; `_sequence_worker`
\* goes out of scope.
DeployReturn ==
    /\ pc = "tb_return"
    /\ drop_is_ready(calls[1].agent)
    /\ returned' = global_configs
    /\ global_configs' = NoRef
    /\ calls' = [calls EXCEPT ![1] = drop_shard(@)]
    /\ pc' = "tb_returned"
    /\ UNCHANGED <<op, args, overflow_checks, heap, id, await_result, exit,
                   fs, data, imported>>

\* line 157: the statement ends and the returned registry is dropped.
MainTestbedDone ==
    /\ pc = "tb_returned"
    /\ heap' = heap_free(heap, returned)
    /\ returned' = NoRef
    /\ pc' = "main_end"
    /\ UNCHANGED <<op, args, overflow_checks, global_configs, id, calls,
                   await_result, exit, fs, data, imported>>

---------------------------------------------------------------------------
(* Benchmark data and its files. *)

\* How many different runs of the (randomised) generator are told apart.
MaxSeed == 1

\* The address of the i-th generated account in run `seed`.
address(i, seed) == 2 * i + seed

\* BenchmarkContext::new + create_tx_generator + generate_transactions for a
\* workload of n transactions: n accounts, one gas object and one
\* transaction per account, in generation order (run `seed` generates them
\* in its own order).
benchmark_data(n, seed) ==
    LET nth(i) == IF seed = 0 THEN i ELSE n + 1 - i IN
    [accounts |-> [a \in {address(i, seed) : i \in 1..n} |-> [gas |-> a + 1]],
     objects  |-> [i \in 1..n |->
                     [id |-> address(nth(i), seed) + 1,
                      owner |-> address(nth(i), seed), version |-> 1]],
     txs      |-> [i \in 1..n |->
                     [sender |-> address(nth(i), seed),
                      gas |-> address(nth(i), seed) + 1, nonce |-> i]]]

\* tx_count * duration.as_secs() on u64 (line 188): the wrapped product, and
\* whether it overflows.
u64_mul(a, b) == (a * b) % U64Modulus
u64_mul_overflows(a, b) == a * b >= U64Modulus

\* Serialisation: a count followed by the fields of each row in order.
flatten(rows) ==
    IF rows = << >> THEN << >>
    ELSE LET width == Len(rows[1]) IN
         [j \in 1..(Len(rows) * width) |->
             rows[((j - 1) \div width) + 1][((j - 1) % width) + 1]]

encode(rows) == <<Len(rows)>> \o flatten(rows)

\* The i-th item of a file whose items are `width` fields wide.
chunk(bytes, i, width) == SubSeq(bytes, 2 + (i - 1) * width, 1 + i * width)

object_rows(objects) ==
    [i \in 1..Len(objects) |-> <<objects[i].id, objects[i].owner, objects[i].version>>]
tx_rows(txs) ==
    [i \in 1..Len(txs) |-> <<txs[i].sender, txs[i].gas, txs[i].nonce>>]
account_rows(pairs) ==
    [i \in 1..Len(pairs) |-> <<pairs[i][1], pairs[i][2].gas>>]

\* The accounts as a list of (address, account) pairs in address order.
sorted_pairs(accounts) ==
    LET rank(a) == Cardinality({y \in DOMAIN accounts : y <= a})
        nth(i) == CHOOSE a \in DOMAIN accounts : rank(a) = i
    IN  [i \in 1..Cardinality(DOMAIN accounts) |-> <<nth(i), accounts[nth(i)]>>]

file_write(files, dir, name, content) ==
    [f \in DOMAIN files \cup {<<dir, name>>} |->
        IF f = <<dir, name>> THEN content ELSE files[f]]

\* storage::export_to_files(accounts, objects, txs, dir): three sibling files
\* under dir.
export_to_files(files, accounts, objects, txs, dir) ==
    file_write(
        file_write(
            file_write(files, dir, "accounts",
                       encode(account_rows(sorted_pairs(accounts)))),
            dir, "objects", encode(object_rows(objects))),
        dir, "txs", encode(tx_rows(txs)))

\* Whether the three files are there to be read.
importable(files, dir) ==
    {<<dir, "accounts">>, <<dir, "objects">>, <<dir, "txs">>} \subseteq DOMAIN files

\* storage::import_from_files(dir): the three files decoded.
import_from_files(files, dir) ==
    LET fa == files[<<dir, "accounts">>]
        fo == files[<<dir, "objects">>]
        ft == files[<<dir, "txs">>]
    IN  [accounts |-> [a \in {chunk(fa, i, 2)[1] : i \in 1..fa[1]} |->
                          [gas |-> (CHOOSE c \in {chunk(fa, i, 2) : i \in 1..fa[1]} :
                                       c[1] = a)[2]]],
         objects  |-> [i \in 1..fo[1] |->
                          LET c == chunk(fo, i, 3) IN
                              [id |-> c[1], owner |-> c[2], version |-> c[3]]],
         txs      |-> [i \in 1..ft[1] |->
                          LET c == chunk(ft, i, 3) IN
                              [sender |-> c[1], gas |-> c[2], nonce |-> c[3]]]]

\* The body of generate_benchmark_data (lines 184-214) as a step of the
\* orchestrating thread that continues at `next`.
GenerateBenchmarkData(next) ==
    IF overflow_checks /\ u64_mul_overflows(args.tx_count, args.duration)
    THEN /\ Panic(calls)
         /\ UNCHANGED data
    ELSE /\ \E seed \in 0..MaxSeed :
               LET tx_count == u64_mul(args.tx_count, args.duration)
                   ctx      == benchmark_data(tx_count, seed)
               IN  data' = [workload |-> tx_count,
                            accounts |-> ctx.accounts,
                            objects  |-> ctx.objects,
                            txs      |-> ctx.txs]
         /\ pc' = next
         /\ UNCHANGED <<calls, exit>>

\* fs::create_dir_all(dir) with its Result ignored: the caller goes on
\* whether or not the directory exists.
CreateDirAllUnchecked(dir, next) ==
    \/ /\ fs' = [fs EXCEPT !.dirs = @ \cup {dir}]
       /\ pc' = next
       /\ UNCHANGED <<calls, exit>>
    \/ /\ pc' = next
       /\ UNCHANGED <<fs, calls, exit>>

\* fs::create_dir_all(dir).expect(..): the directory exists afterwards, or
\* the process panics.
CreateDirAll(dir, next) ==
    \/ /\ fs' = [fs EXCEPT !.dirs = @ \cup {dir}]
       /\ pc' = next
       /\ UNCHANGED <<calls, exit>>
    \/ /\ Panic(calls)
       /\ UNCHANGED fs

---------------------------------------------------------------------------
(* Operation::Genesis (lines 159-180). *)

ParseGenesis ==
    /\ pc = "entry"
    /\ \E w \in Workloads, d \in WorkingDirs, n \in 2..3, sw \in 1..2 :
          args' = [DefaultArgs EXCEPT !.tx_count = w[1], !.duration = w[2],
                                      !.working_directory = d.path,
                                      !.wd_utf8 = d.utf8, !.n_ips = n,
                                      !.sequence_workers = sw]
    /\ op' = "Genesis"
    /\ pc' = "gen_mkdir"
    /\ UNCHANGED <<overflow_checks, heap, global_configs, id, calls, returned,
                   await_result, exit, fs, data, imported>>

\* lines 164-167
GenesisMkdir ==
    /\ pc = "gen_mkdir"
    /\ CreateDirAll(args.working_directory, "gen_config")
    /\ UNCHANGED <<op, args, overflow_checks, heap, global_configs, id,
                   returned, await_result, data, imported>>

\* lines 168-170: GlobalConfig::new_for_benchmark(ips, sequence_workers).export(path)
GenesisConfig ==
    /\ pc = "gen_config"
    /\ fs' = [fs EXCEPT !.files =
                 file_write(@, args.working_directory, "configs.json",
                            new_for_benchmark(args.n_ips, args.sequence_workers))]
    /\ pc' = "gen_data"
    /\ UNCHANGED <<op, args, overflow_checks, heap, global_configs, id, calls,
                   returned, await_result, exit, data, imported>>

\* line 173
GenesisGenerate ==
    /\ pc = "gen_data"
    /\ GenerateBenchmarkData("gen_export")
    /\ UNCHANGED <<op, args, overflow_checks, heap, global_configs, id,
                   returned, await_result, fs, imported>>

\* The directory argument of line 178.
genesis_export_dir == args.working_directory

\* lines 174-179
GenesisExport ==
    /\ pc = "gen_export"
    /\ fs' = [fs EXCEPT !.files =
                 export_to_files(@, data.accounts, data.objects, data.txs,
                                 genesis_export_dir)]
    /\ pc' = "main_end"
    /\ UNCHANGED <<op, args, overflow_checks, heap, global_configs, id, calls,
                   returned, await_result, exit, data, imported>>

---------------------------------------------------------------------------
(* test::export_test (lines 268-290), for any workload and directory. *)

ExportTestBegin ==
    /\ pc = "entry"
    /\ \E w \in Workloads, d \in WorkingDirs :
          args' = [DefaultArgs EXCEPT !.tx_count = w[1], !.duration = w[2],
                                      !.working_directory = d.path,
                                      !.wd_utf8 = d.utf8]
    /\ op' = "ExportTest"
    /\ pc' = "test_mkdir"
    /\ UNCHANGED <<overflow_checks, heap, global_configs, id, calls, returned,
                   await_result, exit, fs, data, imported>>

\* lines 274-277
ExportTestMkdir ==
    /\ pc = "test_mkdir"
    /\ CreateDirAll(args.working_directory, "test_data")
    /\ UNCHANGED <<op, args, overflow_checks, heap, global_configs, id,
                   returned, await_result, data, imported>>

\* line 279
ExportTestGenerate ==
    /\ pc = "test_data"
    /\ GenerateBenchmarkData("test_export")
    /\ UNCHANGED <<op, args, overflow_checks, heap, global_configs, id,
                   returned, await_result, fs, imported>>

\* The export sent to the parent of the working directory.
test_export_dir_parent == SubSeq(args.working_directory, 1, 1)

\* The directory argument of line 284.
test_export_dir == args.working_directory

\* lines 280-285
ExportTestExport ==
    /\ pc = "test_export"
    /\ fs' = [fs EXCEPT !.files =
                 export_to_files(@, data.accounts, data.objects, data.txs,
                                 test_export_dir)]
    /\ pc' = "test_import"
    /\ UNCHANGED <<op, args, overflow_checks, heap, global_configs, id, calls,
                   returned, await_result, exit, data, imported>>

\* line 286: import_from_files(working_directory.into()); a missing file is fatal.
ExportTestImport ==
    /\ pc = "test_import"
    /\ IF importable(fs.files, args.working_directory)
       THEN /\ imported' = import_from_files(fs.files, args.working_directory)
            /\ pc' = "test_assert"
            /\ UNCHANGED <<calls, exit>>
       ELSE /\ Panic(calls)
            /\ UNCHANGED imported
    /\ UNCHANGED <<op, args, overflow_checks, heap, global_configs, id,
                   returned, await_result, fs, data>>

\* The three assert_eq! of lines 287-289.
asserts_hold(read, ctx) ==
    /\ Cardinality(DOMAIN read.accounts) = Cardinality(DOMAIN ctx.accounts)
    /\ read.objects = ctx.objects
    /\ read.txs = ctx.txs

\* lines 287-290
ExportTestAssert ==
    /\ pc = "test_assert"
    /\ IF asserts_hold(imported, data)
       THEN /\ pc' = "main_end"
            /\ UNCHANGED <<calls, exit>>
       ELSE Panic(calls)
    /\ UNCHANGED <<op, args, overflow_checks, heap, global_configs, id,
                   returned, await_result, fs, data, imported>>

---------------------------------------------------------------------------

Init ==
    /\ pc = "entry"
    /\ op = "none"
    /\ args = DefaultArgs
    /\ overflow_checks \in BOOLEAN
    /\ heap = << >>
    /\ global_configs = NoRef
    /\ id = 0
    /\ calls = << >>
    /\ returned = NoRef
    /\ await_result = "none"
    /\ exit = "running"
    /\ fs = [dirs |-> {}, files |-> << >>]
    /\ data = NoData
    /\ imported = NoData

Start ==
    \/ StartLookup
    \/ StartPrometheus
    \/ StartSpawn
    \/ StartInc
    \/ StartReturn

Tasks ==
    \E k \in DOMAIN calls :
        \/ AgentFinish(k)
        \/ AgentPanic(k)
        \/ MetricsFail(k)

Main ==
    \/ ParseRun
    \/ ParseTestbed
    \/ ParseGenesis
    \/ ExportTestBegin
    \/ GenesisMkdir
    \/ GenesisConfig
    \/ GenesisGenerate
    \/ GenesisExport
    \/ ExportTestMkdir
    \/ ExportTestGenerate
    \/ ExportTestExport
    \/ ExportTestImport
    \/ ExportTestAssert
    \/ RunLoad
    \/ RunInject
    \/ RunStart
    \/ AwaitCompletion
    \/ RunExpect
    \/ DeployBuild
    \/ DeployInject
    \/ DeploySpawnSequencer
    \/ DeployWorkerLoop
    \/ DeployWorkerEnd
    \/ DeployReturn
    \/ MainTestbedDone
    \/ MainExit

Next == Main \/ Start \/ Tasks

Spec == Init /\ [][Next]_vars


\* The orchestrating thread keeps running whenever it can; the tasks are
\* under no obligation to end.
FairSpec == Spec /\ WF_vars(Main \/ Start)

---------------------------------------------------------------------------
(* Vocabulary of the properties. *)

Registry(k) == heap[calls[k].configs]
Aborted(k) == calls[k].phase \in {"abort_id", "abort_kind"}
Terminated(task) == task \in {"finished", "panicked", "cancelled"}
Abnormal(task) == task \in {"panicked", "cancelled"}
ValidRegistry(reg) == \A i \in DOMAIN reg : reg[i].kind \in {"SW", "EW"}
HasAttr(e, key, value) == key \in DOMAIN e.attrs /\ e.attrs[key] = value

---------------------------------------------------------------------------

\* C1: a start call whose id is no key of the registry it was given never
\* gets past the lookup: it aborts there (the process ends with a panic),
\* and for that call no agent task and no metrics-endpoint task was ever
\* created and the "up" counter was never incremented.
C1_UnknownIdAbortsBeforeScheduling ==
    \A k \in DOMAIN calls :
        /\ calls[k].id \notin DOMAIN Registry(k) =>
              /\ calls[k].phase \in {"lookup", "abort_id"}
              /\ calls[k].agent = "none"
              /\ calls[k].metrics_task = "none"
              /\ calls[k].up = 0
        /\ calls[k].phase = "abort_id" =>
              /\ calls[k].id \notin DOMAIN Registry(k)
              /\ exit = "panic"

C1_Witness ==
    \E k \in DOMAIN calls :
        /\ calls[k].phase = "abort_id"
        /\ calls[k].id \notin DOMAIN Registry(k)

\* C2: a start call given a valid registry (every role tag known) and an id
\* that is a key of it never aborts, and once it has returned the shard's
\* "up" counter reads exactly 1 and both of its tasks have been scheduled.
C2_ValidStartReturnsUp ==
    \A k \in DOMAIN calls :
        (ValidRegistry(Registry(k)) /\ calls[k].id \in DOMAIN Registry(k)) =>
            /\ ~Aborted(k)
            /\ calls[k].phase = "returned" =>
                  /\ calls[k].up = 1
                  /\ calls[k].agent # "none"
                  /\ calls[k].metrics_task # "none"

C2_Witness ==
    \E k \in DOMAIN calls :
        /\ ValidRegistry(Registry(k))
        /\ calls[k].id \in DOMAIN Registry(k)
        /\ calls[k].phase = "returned"
        /\ calls[k].up = 1
        /\ calls[k].agent = "running"
        /\ calls[k].metrics_task = "running"

\* C3: when deploy_testbed(T, N) returns, the registry it returns has exactly
\* N+1 entries with ids 0..N, id 0 has the sequencing role, every id in 1..N
\* the execution role, and every entry's attribute bag holds, under the rate
\* key "tx_count", a string that reads back as T.
C3_DeployedRegistryShape ==
    pc = "tb_returned" =>
        LET reg == heap[returned]
            N == args.execution_workers
        IN  /\ DOMAIN reg = 0..N
            /\ Cardinality(DOMAIN reg) = N + 1
            /\ reg[0].kind = "SW"
            /\ \A i \in 1..N : reg[i].kind = "EW"
            /\ \A i \in DOMAIN reg :
                  /\ "tx_count" \in DOMAIN reg[i].attrs
                  /\ parse_u64(reg[i].attrs["tx_count"]) = args.tx_count

C3_Witness ==
    /\ pc = "tb_returned"
    /\ args.execution_workers = MaxWorkers
    /\ args.tx_count = 12
    /\ heap[returned][MaxWorkers].attrs["tx_count"] = <<"1", "2">>

\* C4: attribute injection precedes spawn.  In the testbed every registry
\* snapshot handed to a start call already holds the rate in every one of
\* its entries, and from the first start call on so does the orchestrator's
\* own registry; in the run path the registry handed to start holds
\* tx_count, duration and working_dir for the named shard whenever that
\* shard is a key of it.
C4_InjectionPrecedesSpawn ==
    /\ op = "Testbed" =>
          /\ \A k \in DOMAIN calls : \A i \in DOMAIN Registry(k) :
                HasAttr(Registry(k)[i], "tx_count", to_string(args.tx_count))
          /\ (calls # << >> /\ global_configs # NoRef) =>
                \A i \in DOMAIN heap[global_configs] :
                    HasAttr(heap[global_configs][i], "tx_count",
                            to_string(args.tx_count))
    /\ op = "Run" =>
          \A k \in DOMAIN calls :
              calls[k].id \in DOMAIN Registry(k) =>
                  LET e == Registry(k)[calls[k].id] IN
                      /\ HasAttr(e, "tx_count", to_string(args.tx_count))
                      /\ HasAttr(e, "duration", to_string(args.duration))
                      /\ HasAttr(e, "working_dir", args.working_directory)

C4_Witness ==
    \/ /\ op = "Testbed"
       /\ Len(calls) = MaxWorkers + 1
       /\ calls[1].phase = "returned"
       /\ args.tx_count = 12
    \/ /\ op = "Run"
       /\ calls # << >>
       /\ calls[1].id \in DOMAIN Registry(1)
       /\ "tx_count" \in DOMAIN args.config[calls[1].id].attrs
       /\ args.tx_count = 12


\* C5: snapshot isolation.  The registries held by the start calls are
\* pairwise distinct objects, none of them is the object the orchestrator
\* (or the caller of deploy_testbed) still holds, and no step of anyone,
\* the orchestrator mutating or dropping its registry included, changes or
\* frees the registry of a call that has begun.
C5_NoSharing ==
    /\ \A k, l \in DOMAIN calls : k # l => calls[k].configs # calls[l].configs
    /\ \A k \in DOMAIN calls :
          /\ calls[k].configs # global_configs
          /\ calls[k].configs # returned
          /\ calls[k].configs \in DOMAIN heap

C5_SnapshotKept ==
    \A k \in DOMAIN calls :
        /\ calls'[k].configs = calls[k].configs
        /\ calls[k].configs \in DOMAIN heap'
        /\ heap'[calls[k].configs] = heap[calls[k].configs]

\* C5: snapshot isolation: the registries of the start calls are never
\* shared (C5_NoSharing) and never changed or freed by any step
\* (C5_SnapshotKept).
C5_SnapshotIsolation == [] C5_NoSharing /\ [][C5_SnapshotKept]_vars

C5_Witness ==
    /\ op = "Testbed"
    /\ pc = "main_end"
    /\ returned = NoRef
    /\ Len(calls) = MaxWorkers + 1
    /\ \A k \in DOMAIN calls : calls[k].agent = "running"
    /\ Cardinality({calls[k].configs : k \in DOMAIN calls}) = MaxWorkers + 1
    /\ \A k \in DOMAIN calls : calls[k].configs \in DOMAIN heap

\* C6: in the testbed the k-th start call is the one for shard k-1 (the
\* sequencing shard 0 first, then 1, 2, ... in increasing order), and a
\* start call begins only after every earlier one has returned.
C6_SpawnOrder ==
    op = "Testbed" =>
        \A k \in DOMAIN calls :
            /\ calls[k].id = k - 1
            /\ \A l \in 1..(k - 1) : calls[l].phase = "returned"

C6_Witness ==
    /\ op = "Testbed"
    /\ Len(calls) = MaxWorkers + 1
    /\ calls[Len(calls)].phase = "lookup"

\* C7: the testbed path never waits for a shard: as long as the process
\* runs, the orchestrating thread has a step it can take whatever state the
\* spawned tasks are in; so deploy_testbed returns, and main reaches its
\* end, also while every agent task is still running.
C7_TestbedNeverBlocks ==
    (op = "Testbed" /\ exit = "running") => ENABLED (Main \/ Start)

C7_Witness ==
    /\ op = "Testbed"
    /\ pc = "main_end"
    /\ Len(calls) = MaxWorkers + 1
    /\ \A k \in DOMAIN calls :
          /\ calls[k].agent = "running"
          /\ calls[k].handles = "dropped"

\* C8: await_completion returns only after the agent task has ended, with
\* an error exactly when the agent task panicked or was cancelled; once the
\* agent task has ended it can return whatever the state of the
\* metrics-endpoint task, which never turns the result into an error.
C8_AwaitCompletion ==
    /\ await_result # "none" =>
          /\ Terminated(calls[Cur].agent)
          /\ await_result = "err" <=> Abnormal(calls[Cur].agent)
          /\ await_result = "ok" <=> calls[Cur].agent = "finished"
    /\ (pc = "run_await" /\ exit = "running") =>
          (ENABLED AwaitCompletion <=> Terminated(calls[Cur].agent))

C8_Witness ==
    /\ await_result = "ok"
    /\ calls[Cur].agent = "finished"
    /\ calls[Cur].metrics_task = "failed"

\* C9: in the run path the process exits with status 0 only after the agent
\* task finished normally, never after it panicked; and, the orchestrating
\* thread being scheduled fairly, once the agent task has ended the process
\* exits: non-zero if the task panicked, zero if it finished.
C9_ExitSafe ==
    (op = "Run" /\ calls # << >>) =>
        /\ exit = "ok" => calls[1].agent = "finished"
        /\ calls[1].agent = "panicked" => exit # "ok"
        /\ (exit = "panic" /\ calls[1].phase = "returned") =>
              (await_result = "err" /\ Abnormal(calls[1].agent))

\* C9: the run path exits 0 only after a normal end of the agent task
\* (C9_ExitSafe), and under fair scheduling of the orchestrating thread an
\* ended agent task leads to the exit of the process.
C9_RunExits ==
    /\ [] C9_ExitSafe
    /\ (op = "Run" /\ calls # << >> /\ calls[1].agent = "panicked") ~> (exit = "panic")
    /\ (op = "Run" /\ calls # << >> /\ calls[1].agent = "finished") ~> (exit = "ok")

C9_Witness ==
    /\ op = "Run"
    /\ calls # << >>
    /\ calls[1].agent = "panicked"
    /\ await_result = "err"
    /\ exit = "panic"


\* C10: round trip.  Once export_to_files has written (A, G, T) into the
\* directory d, then import_from_files(d) can read them, and what it reads
\* has as many accounts as A, genesis objects equal to G and transactions
\* equal to T in the same order; this holds after the export of export_test
\* and after the export of the genesis operation, and in export_test the
\* value actually imported passes the three assertions.
RoundTrips(read, ctx) ==
    /\ Cardinality(DOMAIN read.accounts) = Cardinality(DOMAIN ctx.accounts)
    /\ read.objects = ctx.objects
    /\ read.txs = ctx.txs

C10_RoundTrip ==
    /\ (op = "ExportTest" /\ pc = "test_import") =>
          /\ importable(fs.files, args.working_directory)
          /\ RoundTrips(import_from_files(fs.files, args.working_directory), data)
    /\ (op = "ExportTest" /\ pc = "test_assert") => RoundTrips(imported, data)
    /\ (op = "ExportTest" /\ pc = "main_end") => RoundTrips(imported, data)
    /\ (op = "Genesis" /\ pc = "main_end") =>
          /\ importable(fs.files, args.working_directory)
          /\ RoundTrips(import_from_files(fs.files, args.working_directory), data)

C10_Witness ==
    /\ op = "ExportTest"
    /\ pc = "main_end"
    /\ Len(data.txs) = 6
    /\ data.txs[1].sender # data.txs[2].sender
    /\ imported.txs = data.txs
    /\ imported.objects = data.objects

\* C11: for every rate and every duration, generate_benchmark_data targets a
\* workload of exactly rate x duration-in-seconds transactions (the product
\* over the integers), and returns exactly that many transactions.
C11_ExactProduct ==
    data # NoData =>
        /\ data.workload = args.tx_count * args.duration
        /\ Len(data.txs) = data.workload

\* The start calls whose id is a key of the registry they were given, with
\* a role tag that is neither "SW" nor "EW".
UnknownKind(k) ==
    /\ calls[k].id \in DOMAIN Registry(k)
    /\ Registry(k)[calls[k].id].kind \notin {"SW", "EW"}

C12_NeverReturns ==
    \A k \in DOMAIN calls :
        UnknownKind(k) =>
            /\ calls[k].phase \in {"lookup", "prometheus", "spawn", "abort_kind"}
            /\ calls[k].agent = "none"
            /\ calls[k].up = 0
            /\ calls[k].phase = "abort_kind" => exit = "panic"

\* C12: a start call for an id that is in the registry with a role tag other
\* than the two known ones never returns a shard, never spawns an agent task
\* and never increments "up" (C12_NeverReturns), and it always ends in the
\* fatal abort of the role dispatch: the process ends with a panic.
C12_UnknownKindAborts ==
    /\ [] C12_NeverReturns
    /\ (\E k \in DOMAIN calls : UnknownKind(k))
          ~> (\E k \in DOMAIN calls :
                 UnknownKind(k) /\ calls[k].phase = "abort_kind" /\ exit = "panic")

C12_Witness ==
    \E k \in DOMAIN calls :
        /\ UnknownKind(k)
        /\ calls[k].phase = "abort_kind"
        /\ calls[k].agent = "none"
        /\ calls[k].up = 0
        /\ exit = "panic"

\* One step as seen by the shard of call k once deploy_testbed has dropped
\* its handles: a running task of the shard stops running only by its own
\* end, which leaves the orchestrating thread, the registries and the exit
\* status as they are, or by the end of the process.
C13_DetachedStep(k) ==
    (op = "Testbed" /\ calls'[k].handles = "dropped") =>
        /\ (calls[k].agent = "running" /\ calls'[k].agent # "running") =>
              \/ /\ calls'[k].agent \in {"finished", "panicked"}
                 /\ UNCHANGED <<pc, exit, heap, global_configs, returned,
                                await_result, id>>
              \/ /\ calls'[k].agent = "cancelled"
                 /\ exit = "running" /\ exit' # "running"
        /\ (calls[k].metrics_task = "running" /\ calls'[k].metrics_task # "running") =>
              \/ /\ calls'[k].metrics_task = "failed"
                 /\ UNCHANGED <<pc, exit, heap, global_configs, returned,
                                await_result, id>>
              \/ /\ calls'[k].metrics_task = "cancelled"
                 /\ exit = "running" /\ exit' # "running"

\* In the testbed path no task result is ever awaited, and the process
\* panics only where no agent task was ever spawned.
C13_NoAbortByAgent ==
    op = "Testbed" =>
        /\ await_result = "none"
        /\ exit = "panic" => \A k \in DOMAIN calls : calls[k].agent = "none"

\* C13: the shards spawned by deploy_testbed are detached.  Once the handles
\* of a shard are dropped, its tasks end only by themselves or with the
\* process; the abnormal end of an agent task changes no registry (the one
\* deploy_testbed returns included) and neither aborts the orchestrating
\* thread nor reaches it as an error.
C13_Detached ==
    /\ [] C13_NoAbortByAgent
    /\ [][\A k \in DOMAIN calls : C13_DetachedStep(k)]_vars

C13_Witness ==
    /\ op = "Testbed"
    /\ pc = "tb_returned"
    /\ exit = "running"
    /\ returned # NoRef
    /\ DOMAIN heap[returned] = 0..args.execution_workers
    /\ \E k \in DOMAIN calls :
          calls[k].handles = "dropped" /\ calls[k].agent = "panicked"

\* The files the genesis operation writes into the directory wd.
GenesisConfigFile(wd) == <<wd, "configs.json">>
GenesisDataFiles(wd) == {<<wd, "accounts">>, <<wd, "objects">>, <<wd, "txs">>}

\* C14: the genesis operation goes on past the creation of the working
\* directory only if the directory exists; if it could not be created the
\* process panics with no config file written, no data generated and
\* nothing exported.  Otherwise the order is: directory created, config file
\* written, data generated, data exported, each step only after the one
\* before it, and every file is written into that same directory.
C14_GenesisOrder ==
    op = "Genesis" =>
        LET wd == args.working_directory IN
        /\ pc \in {"gen_config", "gen_data", "gen_export", "main_end"} =>
              wd \in fs.dirs
        /\ wd \notin fs.dirs => (DOMAIN fs.files = {} /\ data = NoData)
        /\ (pc = "dead" /\ wd \notin fs.dirs) => exit = "panic"
        /\ \A f \in DOMAIN fs.files : f[1] = wd
        /\ GenesisConfigFile(wd) \in DOMAIN fs.files <=>
              (pc \in {"gen_data", "gen_export", "main_end"}
                  \/ (pc = "dead" /\ wd \in fs.dirs))
        /\ data # NoData =>
              (GenesisConfigFile(wd) \in DOMAIN fs.files
                  /\ pc \in {"gen_export", "main_end", "dead"})
        /\ GenesisDataFiles(wd) \cap DOMAIN fs.files # {} =>
              /\ data # NoData
              /\ pc \in {"main_end", "dead"}
              /\ GenesisDataFiles(wd) \subseteq DOMAIN fs.files
        /\ pc = "main_end" => GenesisDataFiles(wd) \subseteq DOMAIN fs.files

C14_Witness ==
    /\ op = "Genesis"
    /\ exit = "panic"
    /\ args.working_directory \notin fs.dirs
    /\ DOMAIN fs.files = {}
    /\ data = NoData

\* The ids start was called with so far, one per call.
StartedIds == {calls[k].id : k \in DOMAIN calls}

\* deploy_testbed has returned to its caller.
Deployed ==
    /\ op = "Testbed"
    /\ pc \in {"tb_returned", "main_end"} \/ (pc = "dead" /\ exit = "ok")

\* C16: in the testbed path start is never called twice with the same id nor
\* with an id outside 0..N; once deploy_testbed(T, N) has returned, start
\* has been called exactly once for each id of 0..N, every one of these
\* N + 1 calls has returned, and each has scheduled one agent task and one
\* metrics-endpoint task: N + 1 of each.  For N = 0 that is the one call for
\* the sequencing shard, id 0.
C16_StartOncePerId ==
    op = "Testbed" =>
        /\ \A k, l \in DOMAIN calls : calls[k].id = calls[l].id => k = l
        /\ StartedIds \subseteq 0..args.execution_workers
        /\ Deployed =>
              /\ Len(calls) = args.execution_workers + 1
              /\ StartedIds = 0..args.execution_workers
              /\ \A k \in DOMAIN calls :
                    /\ calls[k].phase = "returned"
                    /\ calls[k].agent # "none"
                    /\ calls[k].metrics_task # "none"
              /\ args.execution_workers = 0 => StartedIds = {sequence_worker_id}

C16_Witness ==
    /\ Deployed
    /\ pc = "tb_returned"
    /\ args.execution_workers = MaxWorkers
    /\ Len(calls) = MaxWorkers + 1
    /\ StartedIds = 0..MaxWorkers

\* C17: start is all-or-nothing.  Whenever a start call has aborted, on an
\* unknown id or on an unknown role tag, no task of that shard has been
\* scheduled: no agent task and no metrics-endpoint task.
C17_AllOrNothing ==
    \A k \in DOMAIN calls :
        Aborted(k) =>
            /\ calls[k].agent = "none"
            /\ calls[k].metrics_task = "none"


\* C17, as the code has it: a start call that aborts on an unknown id has scheduled no
\* task of that shard; a start call that aborts on an unknown role tag has
\* scheduled no agent task and has not incremented "up", but its
\* metrics-endpoint task was started before the role dispatch and has ended
\* by then only by its own failure or with the process.
C17_AbortPoints ==
    \A k \in DOMAIN calls :
        /\ calls[k].phase = "abort_id" =>
              /\ calls[k].agent = "none"
              /\ calls[k].metrics_task = "none"
              /\ calls[k].up = 0
        /\ calls[k].phase = "abort_kind" =>
              /\ calls[k].agent = "none"
              /\ calls[k].up = 0
              /\ calls[k].metrics_task \in {"cancelled", "failed"}

C17_Witness ==
    \E k \in DOMAIN calls :
        /\ calls[k].phase = "abort_kind"
        /\ calls[k].agent = "none"
        /\ calls[k].metrics_task = "cancelled"
        /\ exit = "panic"

\* C18: in the run path every registry in memory has the keys of the loaded
\* one, and every entry other than the one of the requested id is the loaded
\* entry; the entry of the requested id keeps its role tag, so the injection
\* changes at most the attribute bag of that id.  When the requested id is
\* no key of the loaded registry, the registry stays equal to the loaded one
\* and the start call aborts at the lookup with no task scheduled, which is
\* the only way the process ends.
C18_InjectionFrame ==
    op = "Run" =>
        /\ \A r \in DOMAIN heap :
              /\ DOMAIN heap[r] = DOMAIN args.config
              /\ \A j \in DOMAIN heap[r] :
                    j # args.id => heap[r][j] = args.config[j]
              /\ args.id \in DOMAIN args.config =>
                    /\ heap[r][args.id].kind = args.config[args.id].kind
                    /\ (pc = "run_start" \/ calls # << >>) =>
                          heap[r][args.id].attrs =
                              attrs_insert(args.config[args.id].attrs, run_attrs)
              /\ args.id \notin DOMAIN args.config => heap[r] = args.config
        /\ args.id \notin DOMAIN args.config =>
              /\ \A k \in DOMAIN calls :
                    /\ calls[k].phase \in {"lookup", "abort_id"}
                    /\ calls[k].agent = "none"
                    /\ calls[k].metrics_task = "none"
              /\ pc = "dead" =>
                    /\ exit = "panic"
                    /\ calls # << >>
                    /\ calls[1].phase = "abort_id"

C18_Witness ==
    /\ op = "Run"
    /\ args.id \notin DOMAIN args.config
    /\ DOMAIN args.config # {}
    /\ calls # << >>
    /\ calls[1].phase = "abort_id"
    /\ Registry(1) = args.config
    /\ exit = "panic"

\* The "up" counter of every shard reads 0 or 1, and 1 only when both tasks
\* of that shard have been scheduled.
C19_UpRange ==
    \A k \in DOMAIN calls :
        /\ calls[k].up \in {0, 1}
        /\ calls[k].up = 1 =>
              (calls[k].agent # "none" /\ calls[k].metrics_task # "none")

\* One step as seen by the counter of call k: a counter that reads 1 still
\* reads 1, and the counter changes only in the increment of its own start
\* call.
C19_UpStep(k) ==
    /\ calls[k].up = 1 => calls'[k].up = 1
    /\ calls'[k].up # calls[k].up =>
          (k = Cur /\ pc = "start" /\ calls[k].phase = "inc")

\* C19: each shard has its own "up" counter; it reads 0 or 1, and 1 only
\* after the agent task and the metrics-endpoint task of that shard were
\* scheduled; once 1 it stays 1 however the agent task ends; and no step of
\* the start call of another shard changes it.
C19_UpCounter ==
    /\ [] C19_UpRange
    /\ [][\A k \in DOMAIN calls : C19_UpStep(k)]_vars

C19_Witness ==
    /\ Len(calls) >= 2
    /\ calls[1].up = 1
    /\ calls[1].agent = "panicked"
    /\ calls[2].phase = "returned"
    /\ calls[2].up = 1

=============================================================================
